---------------------------- MODULE Spec2Model ----------------------------
(***************************************************************************)
(* A model of elkmon, a client for the Elk M1 panel's ASCII protocol:      *)
(* the frame codec (ElkMessage), the message factory, the dispatcher       *)
(* (Elk.onDataReceived), the request operations (a one-shot listener       *)
(* raced against a timer) and the recursive text-description fetch.        *)
(*                                                                         *)
(* A string is a sequence of character codes (ASCII), so that the          *)
(* checksum is computed over the byte values the code sums.                *)
(***************************************************************************)
EXTENDS Integers, Sequences, FiniteSets, TLC

(***************************************************************************)
(* Characters and strings                                                  *)
(***************************************************************************)
\* The character code of a character.
Code(c) ==
  CASE c = "0" -> 48 [] c = "1" -> 49 [] c = "2" -> 50 [] c = "3" -> 51
    [] c = "4" -> 52 [] c = "5" -> 53 [] c = "6" -> 54 [] c = "7" -> 55
    [] c = "8" -> 56 [] c = "9" -> 57 [] c = "A" -> 65 [] c = "B" -> 66
    [] c = "C" -> 67 [] c = "D" -> 68 [] c = "E" -> 69 [] c = "F" -> 70
    [] c = "K" -> 75 [] c = "L" -> 76 [] c = "P" -> 80 [] c = "R" -> 82
    [] c = "S" -> 83 [] c = "T" -> 84 [] c = "U" -> 85 [] c = "V" -> 86
    [] c = "W" -> 87 [] c = "X" -> 88 [] c = "Z" -> 90 [] c = "a" -> 97
    [] c = "c" -> 99 [] c = "d" -> 100 [] c = "e" -> 101 [] c = "k" -> 107
    [] c = "n" -> 110 [] c = "o" -> 111 [] c = "p" -> 112 [] c = "r" -> 114
    [] c = "s" -> 115 [] c = "t" -> 116 [] c = "v" -> 118 [] c = "z" -> 122
    [] c = "*" -> 42 [] c = " " -> 32 [] c = "f" -> 102 [] c = "G" -> 71
    [] c = "m" -> 109 [] c = ":" -> 58 [] c = "w" -> 119 [] c = "l" -> 108
    [] c = "-" -> 45 [] c = "M" -> 77 [] c = "g" -> 103 [] c = "i" -> 105
    [] c = "u" -> 117 [] c = "." -> 46

Str(t) == [i \in 1..Len(t) |-> Code(t[i])]

Rep(c, n) == [i \in 1..n |-> c]

Min(a, b) == IF a < b THEN a ELSE b
Max(a, b) == IF a < b THEN b ELSE a
Clamp(i, n) == Max(0, Min(i, n))

\* String.prototype.substring(start, end): both indexes are clamped to
\* 0..length and swapped when start > end.
Substring(s, start, end) ==
  LET a == Clamp(start, Len(s))
      b == Clamp(end, Len(s))
  IN  SubSeq(s, Min(a, b) + 1, Max(a, b))

\* Number.prototype.toString(16).toUpperCase() of a non-negative integer.
HexDigit(d) == IF d < 10 THEN 48 + d ELSE 55 + d

RECURSIVE ToHexUpper(_)
ToHexUpper(n) ==
  IF n < 16 THEN <<HexDigit(n)>>
  ELSE ToHexUpper(n \div 16) \o <<HexDigit(n % 16)>>

\* The value a string of hex digits denotes.
RECURSIVE HexValue(_)
HexValue(s) ==
  IF s = <<>> THEN 0
  ELSE LET c == s[Len(s)]
           d == IF c >= 65 THEN c - 55 ELSE c - 48
       IN  16 * HexValue(SubSeq(s, 1, Len(s) - 1)) + d

\* The sum of the character codes of s (split in halves, to keep the
\* evaluation shallow on a long frame).
RECURSIVE SumBytes(_)
SumBytes(s) ==
  IF s = <<>> THEN 0
  ELSE IF Len(s) = 1 THEN s[1]
  ELSE LET h == Len(s) \div 2
       IN  SumBytes(SubSeq(s, 1, h)) + SumBytes(SubSeq(s, h + 1, Len(s)))

(***************************************************************************)
(* ElkMessage (src/lib/messages.ts)                                        *)
(***************************************************************************)
\* The value of an expression that is not a number (NaN, undefined).
NaN == -1

futureUse == Str(<<"0", "0">>)

hex2Unpadded(i) == ToHexUpper(i)

hex2(i) ==
  LET hex == ToHexUpper(i)
  IN  IF Len(hex) = 1 THEN <<48>> \o hex ELSE hex

calcChecksumNoComplement(hexLength, type, body) ==
  hex2(SumBytes(hexLength \o type \o body) % 256)

\* sum & 0xff, xor 0xff, + 1, & 0xff
calcChecksum(hexLength, type, body) ==
  LET sum   == SumBytes(hexLength \o type \o body)
      low   == sum % 256
      chars == ((255 - low) + 1) % 256
  IN  hex2(chars)

validChecksum(m) == m.checkSum = calcChecksum(m.hexLength, m.type, m.body)

\* The registry of response types (lib/types.ts, responseTypes): the type
\* codes for which a specific message class exists.
responseTypes ==
  { Str(<<"A", "S">>), Str(<<"E", "E">>), Str(<<"K", "A">>), Str(<<"K", "C">>),
    Str(<<"L", "D">>), Str(<<"C", "C">>), Str(<<"C", "S">>), Str(<<"L", "W">>),
    Str(<<"T", "R">>), Str(<<"S", "D">>), Str(<<"T", "C">>), Str(<<"Z", "B">>),
    Str(<<"Z", "D">>), Str(<<"Z", "V">>), Str(<<"Z", "C">>), Str(<<"Z", "S">>),
    Str(<<"Z", "P">>) }

LengthOfCommandWholeFrame(type, body) == Len(type \o body) + 4

LengthOfCommand(type, body) == Len(type \o body) + 2

\* new ElkMessage(command, null)
MessageFromCommand(command) ==
  LET body      == Substring(command, 2, Len(command)) \o futureUse
      type      == Substring(command, 0, 2)
      length    == LengthOfCommand(type, body)
      lengthStr == ToHexUpper(length)
      hexLength == IF Len(lengthStr) = 1 THEN <<48>> \o lengthStr ELSE lengthStr
      checkSum  == calcChecksum(hexLength, type, body)
  IN  [ ok        |-> TRUE,
        message   |-> hexLength \o type \o body \o checkSum,
        body      |-> body,
        type      |-> type,
        hexLength |-> hexLength,
        checkSum  |-> checkSum,
        id        |-> NaN ]

MustValidateAlways(type) == TRUE

MustValidate(type) == type \notin responseTypes

\* new ElkMessage(null, response); ok = FALSE stands for the TypeError the
\* constructor throws on a checksum mismatch.
MessageFromResponse(response) ==
  LET length == Len(response)
      m == [ message   |-> response,
             body      |-> Substring(response, 4, length - 2),
             type      |-> Substring(response, 2, 4),
             hexLength |-> Substring(response, 0, 2),
             checkSum  |-> Substring(response, length - 2, length) ]
  IN  [ ok        |-> ~(MustValidate(m.type) /\ ~validChecksum(m)),
        message   |-> m.message,
        body      |-> m.body,
        type      |-> m.type,
        hexLength |-> m.hexLength,
        checkSum  |-> m.checkSum,
        id        |-> NaN ]


IsDigit(c) == c >= 48 /\ c <= 57

RECURSIVE DigitsValue(_)
DigitsValue(s) ==
  IF s = <<>> THEN 0
  ELSE 10 * DigitsValue(SubSeq(s, 1, Len(s) - 1)) + (s[Len(s)] - 48)

RECURSIVE LeadingDigits(_)
LeadingDigits(s) ==
  IF s = <<>> \/ ~IsDigit(s[1]) THEN <<>>
  ELSE <<s[1]>> \o LeadingDigits(Tail(s))

\* parseInt(s, 10) of a string without sign or leading blanks: the value of
\* its leading digits, NaN when it has none.
ParseInt(s) ==
  LET d == LeadingDigits(s)
  IN  IF d = <<>> THEN NaN ELSE DigitsValue(d)

SD == Str(<<"S", "D">>)

\* new TextStringDescriptionReport(response): id = parseInt(body[2:5], 10)
TextStringDescriptionReportId(body) == ParseInt(Substring(body, 2, 5))

\* responseTypes.get(type) (lib/types.ts): the name of the message class
\* registered for a type code.
MessageClass(type) ==
  CASE type = Str(<<"A", "S">>) -> "ArmingStatusReport"
    [] type = Str(<<"E", "E">>) -> "EntryExitTime"
    [] type = Str(<<"K", "A">>) -> "KeypadAreasReport"
    [] type = Str(<<"K", "C">>) -> "KeypadKeyChangeUpdate"
    [] type = Str(<<"L", "D">>) -> "LogDataUpdate"
    [] type = Str(<<"C", "C">>) -> "OutputChangeUpdate"
    [] type = Str(<<"C", "S">>) -> "OutputStatusReport"
    [] type = Str(<<"L", "W">>) -> "TemperatureReply"
    [] type = Str(<<"T", "R">>) -> "ThermostatReply"
    [] type = Str(<<"S", "D">>) -> "TextStringDescriptionReport"
    [] type = Str(<<"T", "C">>) -> "TaskChangeUpdate"
    [] type = Str(<<"Z", "B">>) -> "ZoneBypass"
    [] type = Str(<<"Z", "D">>) -> "ZoneDefinitionReport"
    [] type = Str(<<"Z", "V">>) -> "ZoneVoltageReport"
    [] type = Str(<<"Z", "C">>) -> "ZoneChangeUpdate"
    [] type = Str(<<"Z", "S">>) -> "ZoneStatusReport"
    [] type = Str(<<"Z", "P">>) -> "ZonePartitionReport"
    [] OTHER -> "undefined"

\* The class getElkResponse instantiates: messages[messageType] when the
\* type code is registered, the base class messages.ElkMessage otherwise.
ClassOf(response) ==
  LET messageType == MessageClass(Substring(response, 2, 4))
  IN  IF messageType # "undefined" THEN messageType ELSE "ElkMessage"

(***************************************************************************)
(* The reports indexed by zone or output number (lib/messages.ts).          *)
(***************************************************************************)
\* The number of zones and of outputs of the panel: the bound of the loops
\* of the four indexed reports.
Zones == 208

\* +s of a string of at most one character: 0 for the empty string, the
\* digit's value for a digit, NaN for another character.
ToNumber(s) ==
  IF s = <<>> THEN 0
  ELSE IF \A i \in 1..Len(s) : IsDigit(s[i]) THEN DigitsValue(s) ELSE NaN

\* parseInt(s, 16) of a string of at most one character: the value of a
\* hex digit of either case, NaN otherwise.
ParseHexDigit(s) ==
  IF s = <<>> THEN NaN
  ELSE LET c == s[1]
       IN  IF IsDigit(c) THEN c - 48
           ELSE IF c >= 65 /\ c <= 70 THEN c - 55
           ELSE IF c >= 97 /\ c <= 102 THEN c - 87
           ELSE NaN

\* status & 0x03 and status >> 2 of a status in 0..15 or NaN: ToInt32 maps
\* NaN to 0.
LowBits(status) == IF status = NaN THEN 0 ELSE status % 4
HighBits(status) == IF status = NaN THEN 0 ELSE status \div 4

\* PhysicalStatus[i] and LogicalState[i] (lib/enums.ts)
PhysicalStatus(i) ==
  CASE i = 0 -> "Unconfigured"
    [] i = 1 -> "Open"
    [] i = 2 -> "EOL"
    [] i = 3 -> "Short"
    [] OTHER -> "undefined"

LogicalState(i) ==
  CASE i = 0 -> "Normal"
    [] i = 1 -> "Trouble"
    [] i = 2 -> "Violated"
    [] i = 3 -> "Bypassed"
    [] OTHER -> "undefined"

\* new OutputStatusReport(response).outputs: entry i of the sequence is
\* outputs[i - 1] of the code.
OutputStatusReportOutputs(body) ==
  [ o \in 1..Zones |->
      IF Substring(body, o - 1, o) = <<48>> THEN "Off" ELSE "On" ]

\* new ZoneDefinitionReport(response).zones; def is the key handed to the
\* table zoneDefinition of lib/types.ts.
ZoneDefinitionReportZones(body) ==
  [ z \in 1..Zones |-> [ id |-> z, def |-> Substring(body, z - 1, z) ] ]

ZoneStatusSwapped(status) ==
  [ physicalStatus |-> PhysicalStatus(HighBits(status)),
    logicalState   |-> LogicalState(LowBits(status)) ]

\* The two labels the zone messages take from a status digit.
ZoneStatus(status) ==
  [ physicalStatus |-> PhysicalStatus(LowBits(status)),
    logicalState   |-> LogicalState(HighBits(status)) ]

\* new ZoneStatusReport(response).zones
ZoneStatusReportZones(body) ==
  [ z \in 1..Zones |->
      LET status == ParseHexDigit(Substring(body, z - 1, z))
      IN  [ id             |-> z,
            physicalStatus |-> ZoneStatus(status).physicalStatus,
            logicalState   |-> ZoneStatus(status).logicalState ] ]

ZonePartitionReportZonesOfBody(body) ==
  [ z \in 1..Len(body) |->
      [ id |-> z, partition |-> ToNumber(Substring(body, z - 1, z)) ] ]

\* new ZonePartitionReport(response).zones
ZonePartitionReportZones(body) ==
  [ z \in 1..Zones |->
      [ id |-> z, partition |-> ToNumber(Substring(body, z - 1, z)) ] ]

\* new ZoneChangeUpdate(response): id, physicalStatus, logicalState
ZoneChangeUpdate(body) ==
  LET status == ParseHexDigit(Substring(body, 3, 4))
  IN  [ id             |-> ToNumber(Substring(body, 0, 3)),
        physicalStatus |-> ZoneStatus(status).physicalStatus,
        logicalState   |-> ZoneStatus(status).logicalState ]

CS == Str(<<"C", "S">>)
ZC == Str(<<"Z", "C">>)
ZD == Str(<<"Z", "D">>)
ZP == Str(<<"Z", "P">>)
ZS == Str(<<"Z", "S">>)

\* The message with the fields its class adds to the base message: the list
\* of an indexed report, the labels of a zone change.
WithSpecific(type, base) ==
  CASE type = CS -> [ outputs |-> OutputStatusReportOutputs(base.body) ] @@ base
    [] type = ZD -> [ zones |-> ZoneDefinitionReportZones(base.body) ] @@ base
    [] type = ZS -> [ zones |-> ZoneStatusReportZones(base.body) ] @@ base
    [] type = ZP -> [ zones |-> ZonePartitionReportZones(base.body) ] @@ base
    [] type = ZC ->
         [ physicalStatus |-> ZoneChangeUpdate(base.body).physicalStatus,
           logicalState   |-> ZoneChangeUpdate(base.body).logicalState ] @@ base
    [] OTHER -> base

getElkResponseNoType(response) ==
  LET type == Substring(response, 2, 4)
      base == MessageFromResponse(response)
  IN  IF type \in responseTypes
      THEN [ base EXCEPT !.id =
               IF type = SD /\ base.ok
               THEN TextStringDescriptionReportId(base.body) ELSE NaN ]
      ELSE [base EXCEPT !.type = <<>>]

\* getElkResponse(response) (lib/factory.ts): the class registered for
\* the type code response[2:4], the base ElkMessage otherwise. Every class
\* starts with super(null, response). Of the specific fields the id of a
\* text description (it steers requestTextDescriptionAll), the lists of
\* the indexed reports and the fields of a zone change are kept.
getElkResponse(response) ==
  LET type == Substring(response, 2, 4)
      base == MessageFromResponse(response)
  IN  IF type \in responseTypes
      THEN WithSpecific(type,
             [ base EXCEPT !.id =
                 IF type = SD /\ base.ok
                 THEN TextStringDescriptionReportId(base.body)
                 ELSE IF type = ZC /\ base.ok
                 THEN ZoneChangeUpdate(base.body).id ELSE NaN ])
      ELSE base

(***************************************************************************)
(* State                                                                   *)
(***************************************************************************)
VARIABLES
  command,      \* the command string last passed to new ElkMessage(command, null)
  encoded,      \* the ElkMessage built from it
  response,     \* the raw frame last passed to getElkResponse
  decoded,      \* the message built from it
  secure,       \* options.secure
  connection,   \* this.connection: "null" until connect(), then "open"
  isAuthorized, \* this.isAuthorized
  listeners,    \* the EventEmitter's listeners, in the order registered
  written,      \* what was passed to connection.write, in order
  requests,     \* the request operations called: promise, timer, history
  calls,        \* the getDescription calls of requestTextDescriptionAll
  items,        \* its items array
  all,          \* its promise
  trace,        \* what the handler that ran last did, in order
  wire,         \* the number of lines the transport has delivered
  chunk,        \* the data of the 'data' event, while its handler is the last that ran
  session       \* the connection this.connection holds: whether it is established,
                \* whether the login has succeeded on it, the 'connected' events for it

elkVars ==
  <<secure, connection, isAuthorized, listeners, written, requests, calls,
    items, all, trace, wire, chunk, session>>

vars ==
  <<command, encoded, response, decoded, secure, connection, isAuthorized,
    listeners, written, requests, calls, items, all, trace, wire, chunk,
    session>>

\* A connection that is not established, or none.
NoSession == [established |-> FALSE, login |-> FALSE, connected |-> 0]

NoMessage ==
  [ ok |-> FALSE, message |-> <<>>, body |-> <<>>, type |-> <<>>,
    hexLength |-> <<>>, checkSum |-> <<>>, id |-> NaN ]

(***************************************************************************)
(* The event loop (src/index.ts). A handler runs to completion; it is an   *)
(* operator from the machine state m (a record of the variables above) to  *)
(* the machine state it leaves.                                            *)
(***************************************************************************)
Star      == Str(<<"*">>)
ErrorCh   == Str(<<"e", "r", "r", "o", "r">>)
Connected == Str(<<"c", "o", "n", "n", "e", "c", "t", "e", "d">>)
CR        == 13
LF        == 10

NoValue == [seq |-> 0, re |-> 0, id |-> NaN]

M ==
  [ connection   |-> connection,
    isAuthorized |-> isAuthorized,
    listeners    |-> listeners,
    written      |-> written,
    requests     |-> requests,
    calls        |-> calls,
    items        |-> items,
    all          |-> all,
    trace        |-> trace,
    wire         |-> wire,
    chunk        |-> chunk,
    session      |-> session ]

Event(e, ch, kind, id, seq) ==
  [e |-> e, ch |-> ch, kind |-> kind, id |-> id, seq |-> seq]

Log(m, ev) == [m EXCEPT !.trace = Append(@, ev)]

SettleAgain(p, state, value) ==
  [p EXCEPT !.state = state, !.value = value, !.settled = @ + 1]

\* A promise is settled once: resolve and reject do nothing to a promise
\* that is no longer pending.
Settle(p, state, value) ==
  IF p.state = "pending"
  THEN [p EXCEPT !.state = state, !.value = value, !.settled = @ + 1]
  ELSE p

NewPromise == [state |-> "pending", value |-> NoValue, settled |-> 0]

\* emitter.once(ch, listener) and emitter.on(ch, listener)
AddListener(m, ch, kind, id, once) ==
  [m EXCEPT !.listeners =
     Append(@, [ch |-> ch, kind |-> kind, id |-> id, once |-> once])]

RemoveListener(m, l) ==
  [m EXCEPT !.listeners = SelectSeq(@, LAMBDA x : x # l)]

\* connection.write(data)
Write(m, what, data, req) ==
  [m EXCEPT !.written = Append(@, [what |-> what, data |-> data, req |-> req])]

\* Number.prototype.toString() of a non-negative integer
RECURSIVE ToDec(_)
ToDec(n) ==
  IF n < 10 THEN <<48 + n>> ELSE ToDec(n \div 10) \o <<48 + (n % 10)>>

\* leftPad(str, len, ch) (lib/utils.ts): str preceded by as many ch as it
\* lacks to len characters.
leftPad(str, len, ch) ==
  IF Len(str) >= len THEN str ELSE Rep(ch, len - Len(str)) \o str

(***************************************************************************)
(* The request operations: each registers a one-shot listener for the type *)
(* code of the response, writes its command and starts a timer.            *)
(***************************************************************************)
Op(name, cmd, type) == [name |-> name, cmd |-> cmd, type |-> type]

requestArmingStatus == Op("requestArmingStatus", Str(<<"a", "s">>), Str(<<"A", "S">>))
requestAreas == Op("requestAreas", Str(<<"k", "a">>), Str(<<"K", "A">>))
requestOutputStatusReport ==
  Op("requestOutputStatusReport", Str(<<"c", "s">>), Str(<<"C", "S">>))
requestSystemStatus == Op("requestSystemStatus", Str(<<"s", "s">>), Str(<<"S", "S">>))
requestTextDescription(id, type) ==
  Op("requestTextDescription",
     Str(<<"s", "d">>) \o leftPad(ToDec(type), 2, 48) \o leftPad(ToDec(id), 3, 48), SD)
requestZoneDefinitionReport ==
  Op("requestZoneDefinitionReport", Str(<<"z", "d">>), Str(<<"Z", "D">>))
requestZonePartitionReport ==
  Op("requestZonePartitionReport", Str(<<"z", "p">>), Str(<<"Z", "P">>))
requestZoneStatusReport ==
  Op("requestZoneStatusReport", Str(<<"z", "s">>), Str(<<"Z", "S">>))
requestZoneVoltageReport(id) ==
  Op("requestZoneVoltageReport",
     Str(<<"z", "v">>) \o leftPad(ToDec(id), 3, 48), Str(<<"Z", "V">>))

\* The body of the promise a request operation returns. On a connection
\* that is still null, connection.write throws after the listener was
\* registered: the promise is rejected with that error and no timer starts.
TimerStarted(m) == IF m.connection = "null" THEN "none" ELSE "armed"

RequestBodyWriteFirst(m, op) ==
  LET r  == Len(m.requests) + 1
      p  == [ op         |-> op.name,
              type       |-> op.type,
              promise    |-> NewPromise,
              timer      |-> "none",
              hits       |-> 0,
              first      |-> 0,
              hitsAtFire |-> NaN,
              answer     |-> 0,
              invoked    |-> 0,
              late       |-> FALSE ]
  IN  IF m.connection = "null"
      THEN [ m EXCEPT !.requests =
               Append(@, [p EXCEPT !.promise = Settle(@, "rejected", NoValue)]) ]
      ELSE LET m1 == Log(Write(m, "frame",
                               MessageFromCommand(op.cmd).message \o <<CR, LF>>, r),
                         Event("write", op.cmd, "request", r, 0))
               m2 == Log(AddListener(m1, op.type, "request", r, TRUE),
                         Event("once", op.type, "request", r, 0))
               m3 == Log(m2, Event("setTimeout", <<>>, "request", r, 0))
           IN  [ m3 EXCEPT !.requests = Append(@, [p EXCEPT !.timer = TimerStarted(m)]) ]

RequestBody(m, op) ==
  LET r  == Len(m.requests) + 1
      m1 == Log(AddListener(m, op.type, "request", r, TRUE),
                Event("once", op.type, "request", r, 0))
      p  == [ op         |-> op.name,
              type       |-> op.type,
              promise    |-> NewPromise,
              timer      |-> "none",
              hits       |-> 0,
              first      |-> 0,
              hitsAtFire |-> NaN,
              answer     |-> 0,
              invoked    |-> 0,
              late       |-> FALSE ]
  IN  IF m.connection = "null"
      THEN [ m1 EXCEPT !.requests =
               Append(@, [p EXCEPT !.promise = Settle(@, "rejected", NoValue)]) ]
      ELSE LET m2 == Log(Write(m1, "frame",
                               MessageFromCommand(op.cmd).message \o <<CR, LF>>, r),
                         Event("write", op.cmd, "request", r, 0))
               m3 == Log(m2, Event("setTimeout", <<>>, "request", r, 0))
           IN  [ m3 EXCEPT !.requests = Append(@, [p EXCEPT !.timer = TimerStarted(m)]) ]

TimeoutSettleResolves(p) == Settle(p, "resolved", NoValue)

\* reject('Timout occured before ... was received.')
TimeoutSettle(p) == Settle(p, "rejected", NoValue)

\* The timer of request r fires.
RequestTimeout(m, r) ==
  [ Log(m, Event("timeout", <<>>, "request", r, 0)) EXCEPT
      !.requests[r].timer = "fired",
      !.requests[r].hitsAtFire = m.requests[r].hits,
      !.requests[r].promise = TimeoutSettle(@) ]

\* The one-shot listener of request r: (response) => resolve(response)
RequestListener(m, r, msg) ==
  [ m EXCEPT
      !.requests[r].promise =
        Settle(@, "resolved", [seq |-> msg.seq, re |-> msg.re, id |-> msg.id]),
      !.requests[r].invoked = @ + 1,
      !.requests[r].late = @ \/ m.requests[r].timer = "fired" ]

(***************************************************************************)
(* requestTextDescriptionAll                                               *)
(***************************************************************************)
Area == 1

\* textDescriptionMaxRange[TextDescriptionType[type]] (lib/types.ts): the
\* greatest id of the description type. The model has one short range.
textDescriptionMaxRange == 3

TimeoutError == [error |-> TRUE, id |-> NaN, seq |-> 0, re |-> 0]

\* getDescription(id, type, cb, timeout); the callback is that of the
\* call of recursiveCall, number k, which made this call.
getDescription(m, id, type) ==
  LET k  == Len(m.calls) + 1
      m1 == Log(AddListener(m, SD, "getDescription", k, TRUE),
                Event("once", SD, "getDescription", k, 0))
      c  == [requested |-> id, id |-> id, timer |-> "none", answer |-> NaN]
      cmd == Str(<<"s", "d">>) \o leftPad(ToDec(type), 2, 48) \o leftPad(ToDec(id), 3, 48)
  IN  IF m.connection = "null"
      THEN [ m1 EXCEPT !.calls = Append(@, c),
                       !.all = Settle(@, "rejected", NoValue) ]
      ELSE LET m2 == Log(Write(m1, "frame",
                               MessageFromCommand(cmd).message \o <<CR, LF>>, 0),
                         Event("write", cmd, "getDescription", k, 0))
           IN  [ m2 EXCEPT !.calls = Append(@, [c EXCEPT !.timer = "armed"]) ]

ContinueWhilePositive(m, k, data) == data.id > 0

ContinueOnReturnedId(m, k, data) ==
  data.id > 0 /\ data.id < textDescriptionMaxRange

\* data.id > 0 && id < textDescriptionMaxRange[...]: id is the variable of
\* recursiveCall, the id that call k requested.
Continue(m, k, data) ==
  data.id > 0 /\ m.calls[k].id < textDescriptionMaxRange

\* The callback recursiveCall passes to getDescription.
Callback(m, k, data) ==
  LET m1 == IF data.error
            THEN [m EXCEPT !.all = Settle(@, "rejected", NoValue)]
            ELSE m
      m2 == IF data.error THEN m1 ELSE [m1 EXCEPT !.calls[k].answer = data.id]
  IN  IF Continue(m2, k, data)
      THEN getDescription(
             [ m2 EXCEPT !.items = Append(@, [id |-> data.id, seq |-> data.seq]),
                         !.calls[k].id = data.id + 1 ],
             data.id + 1, Area)
      ELSE [ m2 EXCEPT !.all =
               Settle(@, "resolved", [seq |-> 0, re |-> 0, id |-> Len(m2.items)]) ]

\* The timer of getDescription call k fires.
DescriptionTimeout(m, k) ==
  Callback([ Log(m, Event("timeout", <<>>, "getDescription", k, 0)) EXCEPT
               !.calls[k].timer = "fired" ],
           k, TimeoutError)

(***************************************************************************)
(* The dispatcher: EventEmitter.emit and onDataReceived                    *)
(***************************************************************************)
\* A listener runs. A one-shot listener is removed before it runs.
Invoke(m, l, msg) ==
  LET m0 == IF l.once THEN RemoveListener(m, l) ELSE m
      m1 == Log(m0, Event("call", l.ch, l.kind, l.id, msg.seq))
  IN  CASE l.kind = "request" -> RequestListener(m1, l.id, msg)
        [] l.kind = "connected" -> RequestBody(m1, requestArmingStatus)
        [] l.kind = "getDescription" ->
             Callback(m1, l.id, [error |-> FALSE, id |-> msg.id, seq |-> msg.seq,
                                 re |-> msg.re])
        [] OTHER -> m1

RECURSIVE InvokeAll(_, _, _)
InvokeAll(m, ls, msg) ==
  IF ls = <<>> THEN m ELSE InvokeAll(Invoke(m, Head(ls), msg), Tail(ls), msg)

ListenersOfAnyChannel(m, ch) == m.listeners

ListenersOfFirstOnly(m, ch) ==
  LET ls == SelectSeq(m.listeners, LAMBDA l : l.ch = ch)
  IN  IF ls = <<>> THEN ls ELSE <<Head(ls)>>

\* The listeners emit calls: those registered for the channel when emit
\* starts, in the order registered.
ListenersOf(m, ch) == SelectSeq(m.listeners, LAMBDA l : l.ch = ch)

\* What the requests saw: each request awaiting type code ch has had one
\* more message of that type dispatched since it was made.
Seen(m, ch, msg) ==
  [ m EXCEPT !.requests =
      [ r \in DOMAIN @ |->
          IF @[r].type = ch
          THEN [ @[r] EXCEPT !.hits = @ + 1,
                             !.first = IF @ = 0 THEN msg.seq ELSE @ ]
          ELSE @[r] ] ]

\* this.emit(ch, msg)
Emit(m, ch, msg) ==
  InvokeAll(Seen(Log(m, Event("emit", ch, "", 0, msg.seq)), ch, msg),
            ListenersOf(m, ch), msg)

EmitTypeFirst(m, msg) == Emit(Emit(m, msg.type, msg), Star, msg)

\* this.emit('*', elkMessage); this.emit(elkMessage.type, elkMessage)
EmitMessage(m, msg) == Emit(Emit(m, Star, msg), msg.type, msg)

\* message.replace('\r', ''): the first carriage return is removed.
RECURSIVE RemoveFirstCR(_)
RemoveFirstCR(s) ==
  IF s = <<>> THEN s
  ELSE IF Head(s) = CR THEN Tail(s)
  ELSE <<Head(s)>> \o RemoveFirstCR(Tail(s))

\* data.trim().split('\n') of the frames joined by CR LF: every line but
\* the last ends with the carriage return.
Lines(frames) ==
  [ i \in 1..Len(frames) |->
      IF i < Len(frames) THEN frames[i] \o <<CR>> ELSE frames[i] ]

\* The panel answers each command once, the commands of one kind in the
\* order written: a frame is the answer to the oldest request whose command
\* was written, that awaits the type of the frame and has no answer yet
\* (0: the frame is unsolicited).
Unanswered(m, raw) ==
  { r \in DOMAIN m.requests :
      /\ m.requests[r].timer # "none"
      /\ m.requests[r].type = Substring(raw, 2, 4)
      /\ m.requests[r].answer = 0 }

AnswerTo(m, raw) ==
  IF Unanswered(m, raw) = {} THEN 0
  ELSE CHOOSE r \in Unanswered(m, raw) : \A q \in Unanswered(m, raw) : r <= q

Answered(m, raw, seq) ==
  IF AnswerTo(m, raw) = 0 THEN m
  ELSE [m EXCEPT !.requests[AnswerTo(m, raw)].answer = seq]

RECURSIVE ForEachBackwards(_, _, _, _)
ForEachBackwards(m, lines, i, base) ==
  IF i > Len(lines) THEN m
  ELSE LET j          == Len(lines) + 1 - i
           message    == RemoveFirstCR(lines[j])
           elkMessage == getElkResponse(message)
           msg == [ seq  |-> base + j,
                    re   |-> AnswerTo(m, message),
                    type |-> elkMessage.type,
                    id   |-> elkMessage.id ]
           m1 == Answered(m, message, base + j)
       IN  IF ~elkMessage.ok
           THEN Log(m1, Event("emit", ErrorCh, "", 0, base + j))
           ELSE ForEachBackwards(EmitMessage(m1, msg), lines, i + 1, base)

\* The forEach of onDataReceived from line i on, inside the try block: a
\* throw of getElkMessage leaves the loop and the catch emits 'error'.
RECURSIVE ForEach(_, _, _, _)
ForEach(m, lines, i, base) ==
  IF i > Len(lines) THEN m
  ELSE LET message    == RemoveFirstCR(lines[i])
           elkMessage == getElkResponse(message)
           msg == [ seq  |-> base + i,
                    re   |-> AnswerTo(m, message),
                    type |-> elkMessage.type,
                    id   |-> elkMessage.id ]
           m1 == Answered(m, message, base + i)
       IN  IF ~elkMessage.ok
           THEN Log(m1, Event("emit", ErrorCh, "", 0, base + i))
           ELSE ForEach(EmitMessage(m1, msg), lines, i + 1, base)

UserName == Str(<<"U">>)
Password == Str(<<"P">>)

ConnectedValue == [seq |-> 0, re |-> 0, type |-> Connected, id |-> NaN]

\* this.emit('connected')
EmitConnected(m) ==
  Emit([m EXCEPT !.session.connected = @ + 1], Connected, ConnectedValue)

\* onConnect(): the callback of netConnect and tslConnect, called when the
\* connection is established.
onConnect(m) == EmitConnected([m EXCEPT !.session.established = TRUE])

UsernamePrompt == Str(<<"U", "s", "e", "r", "n", "a", "m", "e", ":">>)
PasswordPrompt == Str(<<"P", "a", "s", "s", "w", "o", "r", "d", ":">>)
LoginSuccessful ==
  Str(<<"E", "l", "k", "-", "M", "1", "X", "E", "P", ":", " ", "L", "o", "g",
        "i", "n", " ", "s", "u", "c", "c", "e", "s", "s", "f", "u", "l", ".">>)

\* s.indexOf(t): the index, counted from 0, of the first occurrence of t in
\* s, -1 when there is none.
IndexOf(s, t) ==
  LET at == { i \in 0..(Len(s) - Len(t)) : SubSeq(s, i + 1, i + Len(t)) = t }
  IN  IF at = {} THEN -1 ELSE CHOOSE i \in at : \A j \in at : i <= j

\* The frames joined as the panel sends them, each followed by CR LF.
RECURSIVE Join(_)
Join(frames) ==
  IF frames = <<>> THEN <<>>
  ELSE Head(frames) \o <<CR, LF>> \o Join(Tail(frames))

\* The string the 'data' event carries: data.text for a chunk that is one
\* line of text without a line end (data.frames is then that one line),
\* the frames of data.frames with their line ends otherwise.
Raw(data) == IF data.text # <<>> THEN data.text ELSE Join(data.frames)

\* onDataReceived(data): the three tests of the handshake in the order of
\* the code, the guard of the secure mode, then the loop over the lines.
onDataReceived(m, data) ==
  LET m0 == [m EXCEPT !.wire = @ + Len(data.frames)]
  IN  IF Raw(data) = UsernamePrompt
      THEN Write(m0, "userName", UserName \o <<CR, LF>>, 0)
      ELSE IF IndexOf(Raw(data), PasswordPrompt) # -1
      THEN Write(m0, "password", Password \o <<CR, LF>>, 0)
      ELSE IF IndexOf(Raw(data), LoginSuccessful) # -1
      THEN EmitConnected([m0 EXCEPT !.isAuthorized = TRUE, !.session.login = TRUE])
      ELSE IF secure /\ (~m.isAuthorized \/ Substring(Raw(data), 0, 2) = Str(<<"*", "*">>))
      THEN m0
      ELSE ForEach(m0, Lines(data.frames), 1, m.wire)

(***************************************************************************)
(* The frame codec on its own: commands are encoded, the encoded frame or  *)
(* a received frame is decoded.                                            *)
(***************************************************************************)
MaxBodyLen == 252

CommandTypes ==
  { Str(<<"z", "s">>), Str(<<"s", "d">>), Str(<<"Z", "C">>), Str(<<"S", "D">>) }

CommandBodies ==
  { Rep(c, n) : c \in {48, 57}, n \in 0..MaxBodyLen }
    \cup { Str(<<"0", "1", "0", "0", "1">>), Str(<<"0", "0", "2", "2">>) }

Commands == { t \o b : t \in CommandTypes, b \in CommandBodies }

ReceivedLengths == { Str(<<"0", "6">>), Str(<<"0", "A">>) }
ReceivedTypes ==
  { Str(<<"z", "s">>), Str(<<"X", "K">>), Str(<<"Z", "C">>), Str(<<"S", "D">>) }
ReceivedBodies ==
  { Str(<<"0", "0">>), Str(<<"0", "0", "2", "2", "0", "0">>),
    Str(<<"0", "1", "0", "0", "2", "0", "0">>) }
ReceivedChecksums ==
  { Str(<<"4", "D">>), Str(<<"C", "E">>), Str(<<"9", "7">>), Str(<<"0", "0">>) }

\* Frames as the panel may send them, among them the documented
\* 06zs004D and the test fixture 0AZC002200CE, and frames cut short.
ReceivedFrames ==
  { l \o t \o b \o c : l \in ReceivedLengths, t \in ReceivedTypes,
                       b \in ReceivedBodies, c \in ReceivedChecksums }
    \cup { <<>>, Str(<<"0">>), Str(<<"0", "6", "z">>), Str(<<"0", "6", "z", "s", "0">>) }

CodecInit ==
  /\ command = <<>>
  /\ encoded = NoMessage
  /\ response = <<>>
  /\ decoded = NoMessage
  /\ secure = FALSE
  /\ connection = "null"
  /\ isAuthorized = FALSE
  /\ listeners = <<>>
  /\ written = <<>>
  /\ requests = <<>>
  /\ calls = <<>>
  /\ items = <<>>
  /\ all = [state |-> "none", value |-> NoValue, settled |-> 0]
  /\ trace = <<>>
  /\ wire = 0
  /\ chunk = [text |-> <<>>, frames |-> <<>>]
  /\ session = NoSession

\* new ElkMessage(command, null)
Encode(c) ==
  /\ command = <<>> /\ response = <<>>
  /\ command' = c
  /\ encoded' = MessageFromCommand(c)
  /\ response' = <<>>
  /\ decoded' = NoMessage
  /\ UNCHANGED elkVars

\* getElkResponse(r) on a received frame
Decode(r) ==
  /\ command = <<>> /\ response = <<>> /\ r # <<>>
  /\ response' = r
  /\ decoded' = getElkResponse(r)
  /\ command' = <<>>
  /\ encoded' = NoMessage
  /\ UNCHANGED elkVars

\* getElkResponse on the frame the last command was encoded to
DecodeEncoded ==
  /\ encoded.ok
  /\ response = <<>>
  /\ response' = encoded.message
  /\ decoded' = getElkResponse(encoded.message)
  /\ UNCHANGED <<command, encoded>>
  /\ UNCHANGED elkVars

CodecNext ==
  \/ \E c \in Commands : Encode(c)
  \/ \E r \in ReceivedFrames : Decode(r)
  \/ DecodeEncoded

SpecCodec == CodecInit /\ [][CodecNext]_vars

(***************************************************************************)
(* The decoding of the indexed reports and of the zone change: received    *)
(* frames whose bodies are empty, short, exact and long, and that carry    *)
(* every status digit at every position.                                   *)
(***************************************************************************)
MaxReportBody == 211

IndexedTypes == {CS, ZD, ZP, ZS}

\* The sixteen hex digits, two of them in lower case as well, and a
\* character that is no hex digit.
StatusDigits ==
  (48..57) \cup (65..70) \cup {Code("a"), Code("f"), Code("G")}

ReportLengths == {0, 1, Zones - 1, Zones, MaxReportBody}

\* Bodies of one character repeated, of every length above.
UniformBodies ==
  { Rep(c, n) : c \in {Code("0"), Code("1"), Code("F")}, n \in ReportLengths }

\* Bodies as the panel sends them: one entry per zone and the two
\* characters reserved for future use, with the digit d at position z.
MarkedBodies(digits) ==
  { Rep(48, z - 1) \o <<d>> \o Rep(48, Zones - z) \o futureUse :
      d \in digits, z \in 1..Zones }

\* The bodies of a zone change: zone 002 with every status digit, and
\* bodies cut short of the status digit.
ChangeBodies ==
  { Str(<<"0", "0", "2">>) \o <<d>> \o futureUse : d \in StatusDigits }
    \cup { <<>>, Str(<<"0", "0", "2">>) }

\* Frames of the five classes; their checksum is not validated.
ReportFrames ==
  { Str(<<"D", "6">>) \o t \o b \o Str(<<"0", "0">>) :
      t \in IndexedTypes, b \in UniformBodies }
    \cup { Str(<<"D", "6">>) \o ZS \o b \o Str(<<"0", "0">>) :
             b \in MarkedBodies(StatusDigits) }
    \cup { Str(<<"D", "6">>) \o t \o b \o Str(<<"0", "0">>) :
             t \in {CS, ZD, ZP}, b \in MarkedBodies({Code("1")}) }
    \cup { Str(<<"0", "A">>) \o ZC \o b \o Str(<<"0", "0">>) : b \in ChangeBodies }

NextReports == \E r \in ReportFrames : Decode(r)

SpecReports == CodecInit /\ [][NextReports]_vars

(***************************************************************************)
(* The client: connect, subscribers, request operations, their timers and  *)
(* the data the transport delivers.                                        *)
(***************************************************************************)
MaxReq == 2
MaxFrames == 2
MaxPending == 1
MaxLines == 3
MaxChunk == 2

NoPromise == [state |-> "none", value |-> NoValue, settled |-> 0]

ElkInit ==
  /\ connection = "null"
  /\ isAuthorized = FALSE
  /\ listeners = <<>>
  /\ written = <<>>
  /\ requests = <<>>
  /\ calls = <<>>
  /\ items = <<>>
  /\ all = NoPromise
  /\ trace = <<>>
  /\ wire = 0
  /\ chunk = [text |-> <<>>, frames |-> <<>>]
  /\ session = NoSession

Set(m) ==
  /\ connection' = m.connection
  /\ isAuthorized' = m.isAuthorized
  /\ listeners' = m.listeners
  /\ written' = m.written
  /\ requests' = m.requests
  /\ calls' = m.calls
  /\ items' = m.items
  /\ all' = m.all
  /\ trace' = m.trace
  /\ wire' = m.wire
  /\ chunk' = m.chunk
  /\ session' = m.session
  /\ UNCHANGED <<secure, command, encoded, response, decoded>>

NoData == [text |-> <<>>, frames |-> <<>>]

\* A handler starts: the trace is that of the handler that runs.
Begin == [M EXCEPT !.trace = <<>>, !.chunk = NoData]

\* connect()
Connect ==
  /\ connection = "null"
  /\ Set([Begin EXCEPT !.connection = "open", !.session = NoSession])

UserChannels == {Star, Str(<<"A", "S">>)}

HasUser(ch) == \E i \in 1..Len(listeners) : listeners[i].kind = "user" /\ listeners[i].ch = ch

\* elk.on(ch, handler): the application subscribes to a channel (as in the
\* README's example, before it connects).
Subscribe(ch) ==
  /\ connection = "null"
  /\ requests = <<>>
  /\ ~HasUser(ch)
  /\ Set(AddListener(Begin, ch, "user", 0, FALSE))

RequestOps ==
  { requestArmingStatus, requestAreas, requestOutputStatusReport,
    requestSystemStatus, requestTextDescription(1, Area),
    requestZoneDefinitionReport, requestZonePartitionReport,
    requestZoneStatusReport, requestZoneVoltageReport(1) }

\* One of the nine request operations is called.
Request(op) ==
  /\ Len(requests) < MaxReq
  /\ Set(RequestBody(Begin, op))

\* The timer of request r fires.
TimerFire(r) ==
  /\ requests[r].timer = "armed"
  /\ Set(RequestTimeout(Begin, r))

F_AS    == Str(<<"0", "6", "A", "S", "0", "0", "0", "0">>)
F_SS    == Str(<<"0", "6", "S", "S", "0", "0", "9", "4">>)
F_XKbad == Str(<<"0", "6", "X", "K", "0", "0", "0", "0">>)

WireFrames == {F_AS, F_SS, F_XKbad}

RECURSIVE SeqsUpTo(_, _)
SeqsUpTo(S, n) ==
  IF n = 0 THEN {<<>>}
  ELSE LET shorter == SeqsUpTo(S, n - 1)
       IN  shorter \cup { Append(q, x) : q \in shorter, x \in S }

Chunks ==
  { [text |-> <<>>, frames |-> f] : f \in SeqsUpTo(WireFrames, MaxChunk) \ {<<>>} }

\* The transport delivers a chunk: the 'data' event.
DataReceived(data) ==
  /\ connection = "open"
  /\ wire + Len(data.frames) <= MaxLines
  /\ Set(onDataReceived([Begin EXCEPT !.chunk = data], data))

Init ==
  /\ ElkInit
  /\ secure = FALSE
  /\ command = <<>> /\ encoded = NoMessage /\ response = <<>> /\ decoded = NoMessage

\* The request operations that await a frame the panel sends here.
StatusOps == {requestArmingStatus, requestSystemStatus}

\* A status request is called while the application listens as well.
RequestStatus(op) ==
  /\ Len(requests) < MaxPending
  /\ Set(RequestBody(Begin, op))

\* The dispatcher: subscribers, a pending request, chunks of several frames.
Next ==
  \/ Connect
  \/ \E ch \in UserChannels : Subscribe(ch)
  \/ \E op \in StatusOps : RequestStatus(op)
  \/ \E r \in DOMAIN requests : TimerFire(r)
  \/ \E data \in Chunks : DataReceived(data)

Spec == Init /\ [][Next]_vars

AnswerFrames == {F_AS, F_SS}

\* The transport delivers one frame of the panel.
FrameReceived(f) ==
  /\ connection = "open"
  /\ wire < MaxFrames
  /\ Set(onDataReceived([Begin EXCEPT !.chunk = [text |-> <<>>, frames |-> <<f>>]],
                        [text |-> <<>>, frames |-> <<f>>]))

\* The request operations: any of the nine, several outstanding at a time,
\* their timers, and the frames of the panel one at a time.
NextRequests ==
  \/ Connect
  \/ \E op \in RequestOps : Request(op)
  \/ \E r \in DOMAIN requests : TimerFire(r)
  \/ \E f \in AnswerFrames : FrameReceived(f)

SpecRequests == Init /\ [][NextRequests]_vars

(***************************************************************************)
(* setThermostat                                                           *)
(***************************************************************************)
\* Number.prototype.toString() of an integer
NumberToString(n) == IF n < 0 THEN <<45>> \o ToDec(0 - n) ELSE ToDec(n)

OutOfRangeElementOnly(value, element) == element < 0 \/ element > 5

\* The validation of setThermostat: the test of element and the switch.
OutOfRange(value, element) ==
  \/ element < 0 \/ element > 5
  \/ element = 0 /\ (value < 0 \/ value > 4)
  \/ element = 1 /\ (value < 0 \/ value > 1)
  \/ element = 2 /\ (value < 0 \/ value > 1)
  \/ element = 4 /\ (value < 1 \/ value > 99)
  \/ element = 5 /\ (value < 1 \/ value > 99)

ThermostatCommand(thermostatId, value, element) ==
  Str(<<"t", "s">>) \o leftPad(NumberToString(thermostatId), 2, 48)
    \o leftPad(NumberToString(value), 2, 48) \o NumberToString(element)

\* setThermostat(thermostatId, value, element). On a connection that is
\* still null, connection.write throws a TypeError after the validation.
setThermostat(m, thermostatId, value, element) ==
  LET m1 == Log(m, Event("setThermostat", <<thermostatId, value, element>>, "", 0, 0))
  IN  IF OutOfRange(value, element)
      THEN Log(m1, Event("throw", <<>>, "Error", 0, 0))
      ELSE IF m.connection = "null"
      THEN Log(m1, Event("throw", <<>>, "TypeError", 0, 0))
      ELSE Log(Write(m1, "frame",
                     MessageFromCommand(ThermostatCommand(thermostatId, value, element)).message
                       \o <<CR, LF>>, 0),
               Event("write", ThermostatCommand(thermostatId, value, element),
                     "setThermostat", 0, 0))

MaxSets == 1

\* The calls of setThermostat that have written their frame.
ThermostatsSet ==
  { i \in 1..Len(written) : written[i].what = "frame" /\ written[i].req = 0 }

\* The values at and next to the ends of the range of each element, and
\* elements next to the ends of 0..5.
ThermostatInputs ==
  { <<0, 0 - 1>>, <<0, 6>>, <<0 - 1, 3>>, <<100, 3>> }
    \cup { <<v, el>> : v \in {0 - 1, 0, 4, 5}, el \in {0} }
    \cup { <<v, el>> : v \in {0 - 1, 0, 1, 2}, el \in {1, 2} }
    \cup { <<v, el>> : v \in {0, 1, 99, 100}, el \in {4, 5} }

\* The application sets an element of a thermostat.
SetThermostat(thermostatId, value, element) ==
  /\ Cardinality(ThermostatsSet) < MaxSets
  /\ Set(setThermostat(Begin, thermostatId, value, element))

\* setThermostat is called before and after connect, with a request pending
\* or none.
NextThermostat ==
  \/ Connect
  \/ \E op \in StatusOps : RequestStatus(op)
  \/ \E i \in {1, 16}, in \in ThermostatInputs : SetThermostat(i, in[1], in[2])

SpecThermostat == Init /\ [][NextThermostat]_vars

(***************************************************************************)
(* The 'error' handler of the connection                                   *)
(***************************************************************************)
\* this.connection.destroy()
destroy(m) == Log(m, Event("destroy", <<>>, "", 0, 0))

\* this.connect(): a new connection is created and its handlers registered.
connect(m) ==
  Log([m EXCEPT !.connection = "open", !.session = NoSession],
      Event("connect", <<>>, "", 0, 0))

ErrorValue == [seq |-> 0, re |-> 0, type |-> ErrorCh, id |-> NaN]

\* this.emit('error', value): an EventEmitter with no listener for 'error'
\* throws the value instead, which ends the handler that emits it.
Unhandled(m) == ListenersOf(m, ErrorCh) = <<>>

onErrorReconnectsAlways(m, code) ==
  LET m1 == Log(m, Event("error", <<>>, code, 0, 0))
      m2 == Emit(m1, ErrorCh, ErrorValue)
  IN  IF Unhandled(m)
      THEN Log(m2, Event("throw", ErrorCh, "unhandled", 0, 0))
      ELSE connect(destroy(m2))

\* The handler connect() registers for the 'error' event of the connection.
onError(m, code) ==
  LET m1 == Log(m, Event("error", <<>>, code, 0, 0))
      m2 == Emit(m1, ErrorCh, ErrorValue)
  IN  IF Unhandled(m)
      THEN Log(m2, Event("throw", ErrorCh, "unhandled", 0, 0))
      ELSE IF code = "ECONNRESET"
      THEN connect(destroy(m2))
      ELSE m2

ErrorCodes == {"ECONNREFUSED", "ECONNRESET", "ETIMEDOUT"}

\* The connection reports an error.
TransportError(code) ==
  /\ connection = "open"
  /\ Set(onError(Begin, code))

\* elk.on('error', handler)
SubscribeError ==
  /\ ~HasUser(ErrorCh)
  /\ Set(AddListener(Begin, ErrorCh, "user", 0, FALSE))

\* The connection and its errors, with subscribers and a request pending.
NextTransport ==
  \/ Connect
  \/ \E ch \in UserChannels : Subscribe(ch)
  \/ SubscribeError
  \/ \E op \in StatusOps : RequestStatus(op)
  \/ \E r \in DOMAIN requests : TimerFire(r)
  \/ \E code \in ErrorCodes : TransportError(code)

SpecTransport == Init /\ [][NextTransport]_vars

(***************************************************************************)
(* requestTextDescriptionAll on its own: the application connects and      *)
(* fetches the descriptions of one type; the panel sends text description  *)
(* frames.                                                                 *)
(***************************************************************************)
\* requestTextDescriptionAll(type): recursiveCall(1, resolve, reject)
RequestTextDescriptionAll ==
  /\ all.state = "none"
  /\ requests = <<>>
  /\ Set(getDescription([Begin EXCEPT !.all = NewPromise], 1, Area))

\* The timer of getDescription call k fires.
DescriptionTimerFire(k) ==
  /\ calls[k].timer = "armed"
  /\ Set(DescriptionTimeout(Begin, k))

\* The text description frame of id: 0B SD 01 <id> 00 and a checksum the
\* code does not look at.
F_SD(id) ==
  Str(<<"0", "B", "S", "D", "0", "1">>) \o leftPad(ToDec(id), 3, 48)
    \o Str(<<"0", "0", "0", "0">>)

DescriptionFrames == { F_SD(id) : id \in 0..(textDescriptionMaxRange + 1) }

DescriptionChunks ==
  { [text |-> <<>>, frames |-> f] : f \in SeqsUpTo(DescriptionFrames, MaxChunk) \ {<<>>} }

NextAll ==
  \/ Connect
  \/ RequestTextDescriptionAll
  \/ \E k \in DOMAIN calls : DescriptionTimerFire(k)
  \/ \E data \in DescriptionChunks : DataReceived(data)

SpecAll == Init /\ [][NextAll]_vars

\* Every timer setTimeout has started fires in the end: none is cleared.
\* A chain has at most one call more than the lines the panel sends.
TimersFire ==
  \A k \in 1..(MaxLines + 1) :
    WF_vars(k \in DOMAIN calls /\ DescriptionTimerFire(k))

SpecAllFair == SpecAll /\ TimersFire

(***************************************************************************)
(* The handshake of the secure port: the client is made in either mode,    *)
(* the transport delivers the prompts of the login, lines that only        *)
(* contain them, and frames.                                               *)
(***************************************************************************)
AuthTexts ==
  { UsernamePrompt, Str(<<"0">>) \o UsernamePrompt,
    PasswordPrompt, Str(<<"0">>) \o PasswordPrompt \o Str(<<"0">>),
    LoginSuccessful, Str(<<"0">>) \o LoginSuccessful \o Str(<<"0">>) }

AuthChunks ==
  { [text |-> t, frames |-> <<t>>] : t \in AuthTexts }
    \cup { [text |-> <<>>, frames |-> <<F_AS>>] }

\* new Elk(port, host, {secure: ...})
InitAuth ==
  /\ ElkInit
  /\ secure \in BOOLEAN
  /\ command = <<>> /\ encoded = NoMessage /\ response = <<>> /\ decoded = NoMessage

NextAuth ==
  \/ Connect
  \/ \E ch \in UserChannels : Subscribe(ch)
  \/ \E data \in AuthChunks : DataReceived(data)

SpecAuth == InitAuth /\ [][NextAuth]_vars

(***************************************************************************)
(* The sessions of a client: the application of the README, whose handler  *)
(* of 'connected' requests the arming status, connects in either mode; the *)
(* connection is established, logs in, receives frames, fails and is made  *)
(* anew. The timers of the requests do not fire within the run.            *)
(***************************************************************************)
MaxSessions == 2

\* elk.on('connected', () => { elk.requestArmingStatus() ... })
SubscribeConnected ==
  /\ connection = "null"
  /\ \A i \in 1..Len(listeners) : listeners[i].kind # "connected"
  /\ Set(AddListener(Begin, Connected, "connected", 0, FALSE))

\* The connection is established: the callback onConnect runs.
Established ==
  /\ connection = "open"
  /\ ~session.established
  /\ Len(requests) < MaxSessions
  /\ Set(onConnect(Begin))

SessionChunks ==
  { [text |-> t, frames |-> <<t>>] : t \in {UsernamePrompt, PasswordPrompt, LoginSuccessful} }
    \cup { [text |-> <<>>, frames |-> <<F_AS>>] }

\* The established connection delivers a chunk.
SessionData(data) ==
  /\ session.established
  /\ DataReceived(data)

NextSession ==
  \/ Connect
  \/ SubscribeConnected
  \/ SubscribeError
  \/ Established
  \/ \E data \in SessionChunks : SessionData(data)
  \/ \E code \in ErrorCodes : TransportError(code)

SpecSession == InitAuth /\ [][NextSession]_vars

(***************************************************************************)
(* Properties of the codec                                                 *)
(***************************************************************************)
IsUpperHex(s) == \A i \in 1..Len(s) : (s[i] >= 48 /\ s[i] <= 57) \/ (s[i] >= 65 /\ s[i] <= 70)

HasReceived == command = <<>> /\ response # <<>>
HasEncoded == command # <<>>
HasRoundTrip == command # <<>> /\ response # <<>>

C8_RoundTrip ==
  (HasRoundTrip /\ Len(command) + 4 <= 255) =>
    LET type == SubSeq(command, 1, 2)
        body == SubSeq(command, 3, Len(command)) \o futureUse
    IN  /\ response = encoded.message
        /\ decoded.ok
        /\ decoded.hexLength = encoded.hexLength
        /\ decoded.type = type
        /\ decoded.body = body
        /\ decoded.checkSum = calcChecksum(decoded.hexLength, type, body)
        /\ validChecksum(decoded)
        /\ decoded.message =
             decoded.hexLength \o decoded.type \o decoded.body \o decoded.checkSum

\* The text-description request sd01001 was encoded and decoded again.
C8_Witness ==
  /\ HasRoundTrip
  /\ command = Str(<<"s", "d", "0", "1", "0", "0", "1">>)
  /\ decoded.ok
  /\ decoded.body = Str(<<"0", "1", "0", "0", "1", "0", "0">>)

Requests == DOMAIN requests

\* No message of the type request r awaits was dispatched between the
\* request and the firing of its timer.
TimedOut(r) == requests[r].timer = "fired" /\ requests[r].hitsAtFire = 0

HasListener(r) ==
  \E i \in 1..Len(listeners) : listeners[i].kind = "request" /\ listeners[i].id = r

\* C1: a request whose timer fires before a message of the awaited type is
\* dispatched is rejected, its promise settles that once and stays
\* rejected whatever is dispatched later; and no request whose timer was
\* started is rejected before that timer fires.
C1_TimeoutRejectsOnce ==
  \A r \in Requests :
    /\ TimedOut(r) =>
         /\ requests[r].promise.state = "rejected"
         /\ requests[r].promise.settled = 1
    /\ (requests[r].promise.state = "rejected" /\ requests[r].timer # "none") =>
         requests[r].timer = "fired"

\* A request has timed out and its listener has run on a late message of the
\* awaited type: the request is still rejected.
C1_Witness ==
  \E r \in Requests :
    /\ TimedOut(r)
    /\ requests[r].hits > 0
    /\ requests[r].late
    /\ requests[r].promise.state = "rejected"

\* C2 as stated: once a request has timed out its listener is no longer
\* registered, and it is not invoked by a later message of its type.
C2_ListenerRemovedOnTimeout ==
  \A r \in Requests :
    TimedOut(r) => (~HasListener(r) /\ ~requests[r].late)

\* C3: requests are matched with messages by type code alone. A request is
\* resolved by the first message of its type dispatched after it was made,
\* whichever request that message answers: a request is pending only while
\* no message of its type has been dispatched since, and a request that
\* was sent is resolved once one has been, unless its timer fired first.
C3_FirstMessageOfTypeResolves ==
  \A r \in Requests :
    /\ requests[r].promise.state = "resolved" =>
         (requests[r].first > 0 /\ requests[r].promise.value.seq = requests[r].first)
    /\ requests[r].promise.state = "pending" => requests[r].hits = 0
    /\ (requests[r].timer # "none" /\ requests[r].hits > 0
          /\ requests[r].hitsAtFire # 0) =>
         requests[r].promise.state = "resolved"

\* Two requests of one type were outstanding and the second was resolved
\* with the message the panel sent in answer to the first.
C3_Witness ==
  \E r1, r2 \in Requests :
    /\ r1 < r2
    /\ requests[r1].type = requests[r2].type
    /\ requests[r1].promise.state = "resolved"
    /\ requests[r2].promise.state = "resolved"
    /\ requests[r2].promise.value.re = r1
    /\ requests[r2].promise.value = requests[r1].promise.value

\* The last handler was onDataReceived on a chunk of frames that it decoded.
Dispatched ==
  /\ chunk.text = <<>>
  /\ chunk.frames # <<>>
  /\ ~(secure /\ (~isAuthorized \/ Substring(chunk.frames[1], 0, 2) = Str(<<"*", "*">>)))

\* The number the line at position i of the chunk has on the wire.
SeqOf(i) == wire - Len(chunk.frames) + i

Decodes(i) == getElkResponse(chunk.frames[i]).ok

TypeOf(i) == Substring(chunk.frames[i], 2, 4)

\* The positions in the trace of the emits of line i on channel ch.
EmitsOf(i, ch) ==
  { p \in 1..Len(trace) :
      trace[p].e = "emit" /\ trace[p].ch = ch /\ trace[p].seq = SeqOf(i) }

CallsOf(i, ch) ==
  { p \in 1..Len(trace) :
      trace[p].e = "call" /\ trace[p].ch = ch /\ trace[p].seq = SeqOf(i) }

\* C4 as stated: of a chunk of several frames, each frame that fails to
\* decode is reported by an 'error' event, each frame that decodes, also
\* one after a failing frame, is dispatched on both channels, and the
\* connection stays open.
C4_SiblingsStillDispatched ==
  Dispatched =>
    /\ connection = "open"
    /\ \A i \in 1..Len(chunk.frames) :
         IF Decodes(i)
         THEN EmitsOf(i, Star) # {} /\ EmitsOf(i, TypeOf(i)) # {}
         ELSE EmitsOf(i, ErrorCh) # {}

\* The lines of the chunk the handler decodes: those before the first that
\* fails to decode.
Reached(i) == \A j \in 1..(i - 1) : Decodes(j)

\* C5: every message decoded is emitted once on '*' and once on the channel
\* of its type code, on '*' first: the listeners of '*' have run on the
\* message before any listener of its type (a subscriber, the listener of
\* a pending request) runs.
C5_WildcardThenType ==
  Dispatched =>
    \A i \in 1..Len(chunk.frames) :
      (Reached(i) /\ Decodes(i)) =>
        /\ Cardinality(EmitsOf(i, Star)) = 1
        /\ Cardinality(EmitsOf(i, TypeOf(i))) = 1
        /\ \A p \in EmitsOf(i, Star), q \in EmitsOf(i, TypeOf(i)) :
             /\ p < q
             /\ \A c \in CallsOf(i, Star) : p < c /\ c < q
             /\ \A c \in CallsOf(i, TypeOf(i)) : q < c

\* A message went to a subscriber of '*' and then to a pending request.
C5_Witness ==
  /\ Dispatched
  /\ \E p, q \in 1..Len(trace) :
       /\ p < q
       /\ trace[p].e = "call" /\ trace[p].kind = "user" /\ trace[p].ch = Star
       /\ trace[q].e = "call" /\ trace[q].kind = "request"
       /\ trace[p].seq = trace[q].seq

\* What the handler did for a message: its emits and the listeners' runs.
OfMessage(p) == trace[p].e \in {"emit", "call"} /\ trace[p].ch # ErrorCh

\* C6: messages are dispatched in wire order and none is held back: what a
\* handler does for a frame (both emits, the listeners' runs) it does
\* before anything it does for a later frame, every frame it dispatches is
\* of the chunk just delivered, and every frame of the chunk up to the
\* first that fails to decode is dispatched by it.
C6_WireOrder ==
  /\ \A p, q \in 1..Len(trace) :
       (OfMessage(p) /\ OfMessage(q) /\ trace[p].seq < trace[q].seq) => p < q
  /\ \A p \in 1..Len(trace) :
       OfMessage(p) => (Dispatched /\ trace[p].seq > wire - Len(chunk.frames)
                                   /\ trace[p].seq <= wire)
  /\ Dispatched =>
       \A i \in 1..Len(chunk.frames) :
         (Reached(i) /\ Decodes(i)) =>
           (EmitsOf(i, Star) # {} /\ EmitsOf(i, TypeOf(i)) # {})

\* A chunk of two frames was dispatched, the second one after a first chunk.
C6_Witness ==
  /\ Dispatched
  /\ Len(chunk.frames) = 2
  /\ wire > 2
  /\ EmitsOf(1, TypeOf(1)) # {}
  /\ EmitsOf(2, Star) # {}
  /\ TypeOf(1) # TypeOf(2)

(***************************************************************************)
(* Properties of requestTextDescriptionAll                                 *)
(***************************************************************************)
Calls == DOMAIN calls

IsAnswered(k) == calls[k].answer # NaN

\* No call of the chain has failed: each was written and its timer has not
\* fired.
NoFailure == \A k \in Calls : calls[k].timer = "armed"

DescriptionListeners ==
  { i \in 1..Len(listeners) : listeners[i].kind = "getDescription" }

DescriptionsWritten ==
  { i \in 1..Len(written) : written[i].what = "frame" }

\* The answers appended to the list, when continues is the set of the calls
\* whose answer continues the chain.
RECURSIVE Accumulated(_, _)
Accumulated(k, continues) ==
  IF k = 0 THEN <<>>
  ELSE IF IsAnswered(k) /\ k \in continues
       THEN Append(Accumulated(k - 1, continues), calls[k].answer)
       ELSE Accumulated(k - 1, continues)

\* The chain of requests, when continues is the set of the calls whose
\* answer continues it: one request at a time from id 1; an
\* answer that continues is appended and followed by the request of the
\* returned id + 1; any other answer ends the chain, with the promise
\* resolved with the list unless a call of the chain has failed before
\* (which rejects it); the list holds the appended answers as they came.
Chain(continues) ==
  /\ Calls # {} => calls[1].requested = 1
  /\ Cardinality(DescriptionListeners) <= 1
  /\ Cardinality(DescriptionsWritten)
       = Cardinality({ k \in Calls : calls[k].timer # "none" })
  /\ \A k \in Calls :
       /\ ~IsAnswered(k) => k = Len(calls)
       /\ (IsAnswered(k) /\ k \in continues) =>
            (k < Len(calls) /\ calls[k + 1].requested = calls[k].answer + 1)
       /\ (IsAnswered(k) /\ k \notin continues) =>
            /\ k = Len(calls)
            /\ all.state \in {"resolved", "rejected"}
            /\ NoFailure =>
                 (all.state = "resolved" /\ all.value.id = Len(items))
  /\ [i \in 1..Len(items) |-> items[i].id] = Accumulated(Len(calls), continues)
  /\ \A i, j \in 1..Len(items) : i < j => items[i].seq < items[j].seq

ByReturnedId ==
  { k \in Calls : calls[k].answer > 0 /\ calls[k].answer < textDescriptionMaxRange }

ByRequestedId ==
  { k \in Calls : calls[k].answer > 0 /\ calls[k].requested < textDescriptionMaxRange }

\* C10 as stated: the chain continues on a returned id that is > 0 and
\* < maxRangeFor(type).
C10_ContinuesOnReturnedId == Chain(ByReturnedId)

\* C10 as amended: the chain continues when the returned id is > 0 and the
\* id that was requested is < maxRangeFor(type).
C10_ContinuesOnRequestedId == Chain(ByRequestedId)

\* The answer to the request of id 1 was the greatest id of the type: it
\* was appended, the next request was answered, and the promise resolved.
C10_Witness ==
  /\ Len(calls) = 2
  /\ calls[1].answer = textDescriptionMaxRange
  /\ IsAnswered(2)
  /\ all.state = "resolved"
  /\ Len(items) = 1
  /\ items[1].id = textDescriptionMaxRange

\* A call of the chain has failed: its timer fired and no SD frame has
\* answered it.
Failed(k) == calls[k].timer = "fired" /\ calls[k].answer = NaN

\* C11 as stated: when the timer of a description request of the chain
\* fires with no SD response, the operation is rejected, that step writes
\* nothing, and from then on no description request is written and the
\* promise is not resolved.
C11_FailureStopsChain ==
  [][ /\ \A k \in DOMAIN calls :
           (calls[k].timer = "armed" /\ calls[k].answer = NaN
              /\ calls'[k].timer = "fired") =>
             (all'.state = "rejected" /\ written' = written)
      /\ (\E k \in DOMAIN calls : Failed(k)) =>
           (written' = written /\ all'.state # "resolved") ]_vars

(***************************************************************************)
(* Properties of setThermostat                                             *)
(***************************************************************************)
\* The values the claim rejects for an element.
Rejected(value, element) ==
  \/ element \notin 0..5
  \/ element = 0 /\ value \notin 0..4
  \/ element \in {1, 2} /\ value \notin 0..1
  \/ element \in {4, 5} /\ value \notin 1..99

\* C12: a call of setThermostat with an element outside 0..5, or a value
\* outside the range of its element (0: 0..4; 1, 2: 0..1; 4, 5: 1..99),
\* throws the validation error and leaves what was written, the connection,
\* the requests and the listeners as they were; every other call, on an
\* open connection, writes one frame, the encoded 'ts' command followed by
\* CR LF, and does not throw.
C12_ThermostatValidation ==
  [][ (trace' # <<>> /\ trace'[1].e = "setThermostat") =>
        LET in == trace'[1].ch
        IN  IF Rejected(in[2], in[3])
            THEN /\ Len(trace') = 2
                 /\ trace'[2].e = "throw" /\ trace'[2].kind = "Error"
                 /\ written' = written
                 /\ connection' = connection
                 /\ requests' = requests
                 /\ listeners' = listeners
            ELSE connection = "open" =>
                 /\ Len(written') = Len(written) + 1
                 /\ SubSeq(written', 1, Len(written)) = written
                 /\ written'[Len(written')].data
                      = MessageFromCommand(ThermostatCommand(in[1], in[2], in[3])).message
                          \o <<CR, LF>>
                 /\ Substring(written'[Len(written')].data, 2, 4) = Str(<<"t", "s">>)
                 /\ \A p \in 1..Len(trace') : trace'[p].e # "throw" ]_vars

\* With a request pending, a call with element 3, which has no range, has
\* written its frame after the frame of the request.
C12_Witness ==
  /\ trace # <<>>
  /\ trace[1].e = "setThermostat"
  /\ trace[1].ch[3] = 3
  /\ trace[1].ch[2] = 100
  /\ Len(written) = 2
  /\ requests # <<>>

(***************************************************************************)
(* Properties of the 'error' handler of the connection                     *)
(***************************************************************************)
\* The positions in the trace of the events e.
Positions(e) == { p \in 1..Len(trace) : trace[p].e = e }

\* The handler of the 'error' event of the connection ran last.
AfterError == trace # <<>> /\ trace[1].e = "error"

\* On ECONNRESET the handler emits 'error', then destroys the connection,
\* then starts one new connection attempt, so that a later reset finds a
\* connection again; on any other error it emits 'error' and neither
\* destroys nor connects.
ReconnectsOnResetOnly ==
  /\ \E p \in Positions("emit") : trace[p].ch = ErrorCh
  /\ Positions("throw") = {}
  /\ IF trace[1].kind = "ECONNRESET"
     THEN /\ \E p \in Positions("emit"), q \in Positions("destroy"),
                r \in Positions("connect") : p < q /\ q < r
          /\ Cardinality(Positions("connect")) = 1
          /\ connection = "open"
     ELSE Positions("destroy") = {} /\ Positions("connect") = {}

C14_FactoryByTypeCode ==
  (response # <<>> /\ Len(response) >= 6) =>
    LET len  == Len(response)
        type == SubSeq(response, 3, 4)
    IN  /\ type \in responseTypes =>
             /\ decoded.ok
             /\ ClassOf(response) = MessageClass(type)
             /\ ClassOf(response) \notin {"ElkMessage", "undefined"}
        /\ (type \notin responseTypes /\ decoded.ok) =>
             /\ ClassOf(response) = "ElkMessage"
             /\ decoded.id = NaN
        /\ decoded.ok =>
             /\ decoded.type = type
             /\ decoded.body = SubSeq(response, 5, len - 2)
             /\ decoded.hexLength = SubSeq(response, 1, 2)
             /\ decoded.checkSum = SubSeq(response, len - 1, len)
             /\ decoded.message = response

\* A received frame of a type code that is not registered, with the right
\* checksum and a body, was decoded to a base message.
C14_Witness ==
  /\ HasReceived
  /\ Len(response) > 6
  /\ SubSeq(response, 3, 4) \notin responseTypes
  /\ decoded.ok
  /\ ClassOf(response) = "ElkMessage"

\* The body of the received frame and the character at its position z
\* (counted from 1), the empty string past its end.
ReportBody == SubSeq(response, 5, Len(response) - 2)

CharOf(z) == IF z <= Len(ReportBody) THEN <<ReportBody[z]>> ELSE <<>>

ReportType == SubSeq(response, 3, 4)

IsReport(type) == response # <<>> /\ ReportType = type

\* C15: the list of a zone status, zone definition, zone partition or
\* output status report has 208 entries whatever the length of the body,
\* and entry i (counted from 0) is the one of zone or output i + 1: it
\* carries that id and is made from the body's character at index i.
C15_IndexedReportsHold208 ==
  /\ IsReport(CS) =>
       /\ Len(decoded.outputs) = 208
       /\ \A i \in 0..207 :
            decoded.outputs[i + 1] = IF CharOf(i + 1) = <<48>> THEN "Off" ELSE "On"
  /\ IsReport(ZD) =>
       /\ Len(decoded.zones) = 208
       /\ \A i \in 0..207 :
            /\ decoded.zones[i + 1].id = i + 1
            /\ decoded.zones[i + 1].def = CharOf(i + 1)
  /\ IsReport(ZP) =>
       /\ Len(decoded.zones) = 208
       /\ \A i \in 0..207 :
            /\ decoded.zones[i + 1].id = i + 1
            /\ CharOf(i + 1) # <<>> /\ IsDigit(CharOf(i + 1)[1]) =>
                 decoded.zones[i + 1].partition = CharOf(i + 1)[1] - 48
  /\ IsReport(ZS) =>
       /\ Len(decoded.zones) = 208
       /\ \A i \in 0..207 : decoded.zones[i + 1].id = i + 1

\* A zone partition report with a body of one character was decoded: its
\* list has an entry for zone 208 all the same.
C15_Witness ==
  /\ IsReport(ZP)
  /\ Len(ReportBody) = 1
  /\ decoded.zones[208].id = 208

\* The labels of the status digit c: the physical status is the label of
\* its two low bits, the logical state the label of its two high bits.
LabelsAgree(c, entry) ==
  (c # <<>> /\ IsUpperHex(c)) =>
    LET n == HexValue(c)
    IN  /\ entry.physicalStatus = PhysicalStatus(n % 4)
        /\ entry.logicalState = LogicalState(n \div 4)
        /\ n = 2 => entry.physicalStatus = "EOL" /\ entry.logicalState = "Normal"
        /\ n = 8 => entry.physicalStatus = "Unconfigured"
                      /\ entry.logicalState = "Violated"

\* C16: for every hex digit n at the status position of a zone change and
\* at each of the 208 positions of a zone status report, physicalStatus is
\* the label of n & 3 and logicalState the label of n >> 2, never the
\* other way round: the digit 2 gives 'EOL' and 'Normal'.
C16_StatusBitsSplit ==
  /\ (IsReport(ZC) /\ Len(ReportBody) >= 4) =>
       LabelsAgree(<<ReportBody[4]>>, decoded)
  /\ IsReport(ZS) =>
       \A z \in 1..208 : LabelsAgree(CharOf(z), decoded.zones[z])

\* A zone status report with the digit B at the position of zone 208 was
\* decoded: that zone is Short and Violated.
C16_Witness ==
  /\ IsReport(ZS)
  /\ CharOf(208) = <<Code("B")>>
  /\ decoded.zones[208].physicalStatus = "Short"
  /\ decoded.zones[208].logicalState = "Violated"

\* The timer of request r was started, and a message of the type it awaits
\* was dispatched to its listener before that timer fired.
AnsweredInTime(r) ==
  /\ requests[r].timer # "none"
  /\ requests[r].hits > 0
  /\ requests[r].timer = "fired" => requests[r].hitsAtFire > 0

\* C17 as stated: a request answered before its timer fires is resolved
\* and its timer is cancelled, so that the timer never fires afterwards
\* and the timeout handler never runs.
C17_TimerCancelledOnResolve ==
  \A r \in Requests :
    AnsweredInTime(r) =>
      /\ requests[r].promise.state = "resolved"
      /\ requests[r].timer # "fired"

Pending(r) == requests[r].promise.state = "pending"

\* C18 as stated: no two pending requests await the same type code, and
\* of a request that was resolved or rejected neither the listener nor
\* the timer remains registered.
C18_OnePendingPerType ==
  /\ \A r1, r2 \in Requests :
       (Pending(r1) /\ Pending(r2) /\ requests[r1].type = requests[r2].type)
         => r1 = r2
  /\ \A r \in Requests :
       ~Pending(r) => (~HasListener(r) /\ requests[r].timer # "armed")

\* The positions in the trace of the steps e of a request operation.
Steps(e) ==
  { p \in 1..Len(trace) : trace[p].e = e /\ trace[p].kind = "request" }

\* C19: a request operation registers the one-shot listener for the type
\* code of the response first, then writes the command frame, then starts
\* the timer: the write is preceded by the registration and followed by
\* the start of the timer of the same request, no timer is started without
\* the write before it, and a request whose command was written has its
\* listener registered until the first message of that type is dispatched.
C19_ListenerThenWriteThenTimer ==
  /\ \A p \in Steps("write") :
       /\ p > 1 /\ p < Len(trace)
       /\ p - 1 \in Steps("once") /\ p + 1 \in Steps("setTimeout")
       /\ trace[p - 1].id = trace[p].id /\ trace[p + 1].id = trace[p].id
       /\ trace[p - 1].ch = requests[trace[p].id].type
       /\ \E i \in 1..Len(listeners) :
            /\ listeners[i].kind = "request" /\ listeners[i].id = trace[p].id
            /\ listeners[i].ch = requests[trace[p].id].type
            /\ listeners[i].once
  /\ \A p \in Steps("setTimeout") : p - 1 \in Steps("write")
  /\ \A r \in Requests :
       (requests[r].timer # "none" /\ requests[r].hits = 0) =>
         /\ HasListener(r)
         /\ \E w \in 1..Len(written) : written[w].req = r

\* A request operation has just run on an open connection: it registered,
\* wrote and started its timer, and its frame is on the transport.
C19_Witness ==
  /\ Steps("once") # {} /\ Steps("write") # {} /\ Steps("setTimeout") # {}
  /\ \E r \in Requests :
       /\ requests[r].timer = "armed"
       /\ HasListener(r)
       /\ \E w \in 1..Len(written) : written[w].req = r

(***************************************************************************)
(* Properties of the handshake                                             *)
(***************************************************************************)
\* The step is a 'data' event.
IsData == chunk' # NoData

IsPrompt(t) ==
  \/ t = UsernamePrompt
  \/ IndexOf(t, PasswordPrompt) # -1
  \/ IndexOf(t, LoginSuccessful) # -1

\* The step writes data once and does nothing else.
WritesOnly(what, data) ==
  /\ written' = Append(written, [what |-> what, data |-> data, req |-> 0])
  /\ trace' = <<>>
  /\ isAuthorized' = isAuthorized

\* The step authorizes the session and emits 'connected', nothing else.
Authorizes ==
  /\ isAuthorized'
  /\ trace' = <<Event("emit", Connected, "", 0, 0)>>
  /\ written' = written

\* The reactions to a chunk t: one write of the user name, one write of the
\* password, or the authorization; the chunk is not decoded or dispatched.
Handshake(t) ==
  /\ t = UsernamePrompt => WritesOnly("userName", UserName \o <<CR, LF>>)
  /\ IndexOf(t, PasswordPrompt) # -1 =>
       WritesOnly("password", Password \o <<CR, LF>>)
  /\ (IndexOf(t, LoginSuccessful) # -1 /\ IndexOf(t, PasswordPrompt) = -1) =>
       Authorizes

\* The step writes nothing, leaves the authorization alone and does not
\* emit 'connected'.
NoReaction ==
  /\ written' = written
  /\ isAuthorized' = isAuthorized
  /\ \A p \in 1..Len(trace') : trace'[p].ch # Connected

\* The reactions of the handshake as the code has them, in either mode.
HandshakeInEitherMode == [][IsData => Handshake(Raw(chunk'))]_vars

\* C20 as stated: a chunk equal to 'Username:' causes one write of the
\* user name and CR LF, a chunk containing 'Password:' one write of the
\* password and CR LF, a chunk containing 'Elk-M1XEP: Login successful.'
\* authorizes the session and emits 'connected', none of them is decoded
\* or dispatched, and all this in secure mode only: without it these
\* chunks cause no write, no authorization and no 'connected'.
C20_HandshakeInSecureModeOnly ==
  [][ IsData =>
        IF secure THEN Handshake(Raw(chunk'))
        ELSE IsPrompt(Raw(chunk')) => NoReaction ]_vars

(***************************************************************************)
(* Properties of a dispatch among several outstanding requests             *)
(***************************************************************************)
ListenerIn(ls, r) ==
  \E i \in 1..Len(ls) : ls[i].kind = "request" /\ ls[i].id = r

\* C21: when a frame of type code T is dispatched, every outstanding
\* request that awaits T is resolved with that message (the one numbered
\* wire' on the connection) and its listener is gone; every outstanding
\* request that awaits another type code is left as it was: pending, its
\* record untouched, its listener registered, its timer armed.
C21_DispatchResolvesItsTypeOnly ==
  [][ IsData =>
        LET T == Substring(chunk'.frames[1], 2, 4)
        IN  \A r \in Requests :
              Pending(r) =>
                IF requests[r].type = T
                THEN /\ requests'[r].promise.state = "resolved"
                     /\ requests'[r].promise.value.seq = wire'
                     /\ requests'[r].promise.settled = 1
                     /\ ~ListenerIn(listeners', r)
                ELSE /\ requests'[r] = requests[r]
                     /\ requests'[r].timer = "armed"
                     /\ ListenerIn(listeners', r) ]_vars

\* An arming status frame was just dispatched with two requests
\* outstanding: the one awaiting AS is resolved with it, the one awaiting
\* another type is still pending with its listener and its timer.
C21_Witness ==
  /\ chunk.frames = <<F_AS>>
  /\ \E r1, r2 \in Requests :
       /\ requests[r1].type = Str(<<"A", "S">>)
       /\ requests[r1].promise.state = "resolved"
       /\ requests[r1].promise.value.seq = wire
       /\ requests[r2].type # Str(<<"A", "S">>)
       /\ Pending(r2) /\ HasListener(r2) /\ requests[r2].timer = "armed"

(***************************************************************************)
(* Properties of the timers of requestTextDescriptionAll                   *)
(***************************************************************************)
\* The step is the firing of the timer of call k.
Fires(k) == calls[k].timer = "armed" /\ calls'[k].timer = "fired"

\* C22 as stated: the operation is rejected only by the timer of a request
\* of its chain that has had no SD response, and the timer of a request
\* that was answered neither rejects nor ends the operation.
C22_RejectedOnlyWhenUnanswered ==
  [][ /\ (all.state = "pending" /\ all'.state = "rejected") =>
           \E k \in Calls : Fires(k) /\ calls[k].answer = NaN
      /\ \A k \in Calls :
           (Fires(k) /\ calls[k].answer # NaN) => all' = all ]_vars

(***************************************************************************)
(* Termination of requestTextDescriptionAll                                *)
(***************************************************************************)
\* The panel has answered every request with the id requested, a later
\* one, or 0.
AnswersNotBefore ==
  \A k \in Calls :
    IsAnswered(k) => (calls[k].answer = 0 \/ calls[k].answer >= calls[k].requested)

\* The ids requested and the ids of the list grow strictly, and no more
\* requests were made than the type has ids.
ChainAdvances ==
  /\ \A j, k \in Calls : j < k => calls[j].requested < calls[k].requested
  /\ Len(calls) <= textDescriptionMaxRange
  /\ \A i, j \in 1..Len(items) : i < j => items[i].id < items[j].id

\* C23: while the panel answers every request for id k with a returned id
\* that is 0 or >= k, the requested ids are strictly increasing, at most
\* maxRangeFor(type) requests are made and the ids of the list are
\* strictly increasing; and the promise of the operation, once made, is
\* resolved or rejected in the end.
C23_ChainTerminates ==
  /\ [](AnswersNotBefore => ChainAdvances)
  /\ (all.state = "pending") ~> (all.state \in {"resolved", "rejected"})

\* A chain of as many requests as the type has ids, each answered with the
\* id requested, has ended with the list of the answers that continued it.
C23_Witness ==
  /\ Len(calls) = textDescriptionMaxRange
  /\ \A k \in Calls : calls[k].answer = calls[k].requested
  /\ all.state = "resolved"
  /\ Len(items) = textDescriptionMaxRange - 1

(***************************************************************************)
(* Properties of the sessions                                              *)
(***************************************************************************)
\* The positions in the trace of the events e on channel ch.
On(e, ch) == { p \in 1..Len(trace) : trace[p].e = e /\ trace[p].ch = ch }

\* C24 as stated: in secure mode the handler of a chunk decodes and
\* dispatches nothing while the login has not succeeded on the connection
\* that delivered it, whatever connections came before.
C24_NoDispatchBeforeLogin ==
  (secure /\ chunk # NoData /\ ~session.login) => trace = <<>>

\* C25 as stated: 'connected' is emitted once for a connection, in secure
\* mode only after the login has succeeded on it, and a request the
\* handler of 'connected' makes is not written before the session is
\* authorized.
C25_ConnectedOncePerSession ==
  /\ session.connected <= 1
  /\ (secure /\ On("emit", Connected) # {}) => session.login
  /\ (secure /\ On("call", Connected) # {} /\ Steps("write") # {}) => isAuthorized

=============================================================================
